---- MODULE Spec2Model ----
(***************************************************************************)
(* Mask-Fill: the command line utility (MaskFillUtility.py), the two       *)
(* generations of the HDF5 mask-fill pipeline (H5MaskFill.py and           *)
(* pymods/H5MaskFill.py), the mask-array cache (pymods/MaskFillCaching.py) *)
(* and the two projection-metadata readers.                                *)
(*                                                                         *)
(* Text on which the code computes (suffix tests, substring tests,         *)
(* lower-casing, concatenation) is a sequence of one-character strings.    *)
(* An optional value (Python's None or a value) is the empty set or a      *)
(* singleton.                                                              *)
(***************************************************************************)
EXTENDS Integers, Sequences, FiniteSets, TLC

\* Depth of group nesting below the root group of the HDF5 input file.
MaxDepth == 1
\* Number of consecutive invocations on the same inputs and cache directory.
MaxRuns == 2

None == {}
Some(v) == {v}
TheValue(o) == CHOOSE v \in o : TRUE

----------------------------------------------------------------------------
(* Text *)

UpperCase == <<"A","B","C","D","E","F","G","H","I","J","K","L","M",
               "N","O","P","Q","R","S","T","U","V","W","X","Y","Z">>
LowerCase == <<"a","b","c","d","e","f","g","h","i","j","k","l","m",
               "n","o","p","q","r","s","t","u","v","w","x","y","z">>

lower_char(c) ==
    IF \E i \in DOMAIN UpperCase : UpperCase[i] = c
    THEN LowerCase[CHOOSE i \in DOMAIN UpperCase : UpperCase[i] = c]
    ELSE c

\* str.lower()
lower(s) == [i \in 1..Len(s) |-> lower_char(s[i])]

\* str.endswith(suffix)
endswith(s, suffix) ==
    /\ Len(s) >= Len(suffix)
    /\ SubSeq(s, Len(s) - Len(suffix) + 1, Len(s)) = suffix

\* sub in s
contains(s, sub) ==
    \E i \in 0..(Len(s) - Len(sub)) : SubSeq(s, i + 1, i + Len(sub)) = sub

Digits == <<"0","1","2","3","4","5","6","7","8","9">>
IsDigit(c) == \E i \in DOMAIN Digits : Digits[i] = c
DigitValue(c) == (CHOOSE i \in DOMAIN Digits : Digits[i] = c) - 1

RECURSIVE DigitsValue(_)
DigitsValue(s) ==
    IF s = <<>> THEN 0
    ELSE 10 * DigitsValue(SubSeq(s, 1, Len(s) - 1)) + DigitValue(s[Len(s)])

\* float(text) on the texts of FillTexts: an optional sign and decimal digits
\* parse to their value; anything else raises ValueError (None here).
float(text) ==
    LET body == IF text # <<>> /\ text[1] = "-" THEN Tail(text) ELSE text
    IN IF body # <<>> /\ \A i \in DOMAIN body : IsDigit(body[i])
       THEN Some(IF text[1] = "-" THEN 0 - DigitsValue(body) ELSE DigitsValue(body))
       ELSE None

T_tif  == <<".","t","i","f">>
T_h5   == <<".","h","5">>
T_shp  == <<".","s","h","p">>
T_use    == <<"u","s","e">>
T_save   == <<"s","a","v","e">>
T_delete == <<"d","e","l","e","t","e">>
T_degrees == <<"d","e","g","r","e","e","s">>
T_npy  == <<".","n","p","y">>

ignore_and_delete == <<"i","g","n","o","r","e","_","a","n","d","_","d","e","l","e","t","e">>
ignore_and_save   == <<"i","g","n","o","r","e","_","a","n","d","_","s","a","v","e">>
use_cache         == <<"u","s","e","_","c","a","c","h","e">>
use_and_save      == <<"u","s","e","_","a","n","d","_","s","a","v","e">>
use_cache_delete  == <<"u","s","e","_","c","a","c","h","e","_","d","e","l","e","t","e">>
maskgrid_only     == <<"m","a","s","k","g","r","i","d","_","o","n","l","y">>
MaskGrid_Only     == <<"M","a","s","k","G","r","i","d","_","O","n","l","y">>
\* A --MASK_GRID_CACHE value outside the recognized literals.
off_mode          == <<"o","f","f">>

mask_grid_cache_values ==
    {ignore_and_delete, ignore_and_save, use_cache, use_and_save,
     use_cache_delete, maskgrid_only}

default_mask_grid_cache == ignore_and_delete
default_fill_value == <<"-","9","9","9","9">>

----------------------------------------------------------------------------
(* The command line: arguments, the file system, responses *)

\* Paths the arguments are drawn from, and the ones that exist on disk.
P_a_h5  == <<"a",".","h","5">>
P_a_tif == <<"a",".","t","i","f">>
P_m_h5  == <<"m",".","h","5">>
P_a_csv == <<"a",".","c","s","v">>
P_m_csv == <<"m",".","c","s","v">>
P_A_H5  == <<"A",".","H","5">>
P_s_shp == <<"s",".","s","h","p">>
P_m_shp == <<"m",".","s","h","p">>
P_s_txt == <<"s",".","t","x","t">>
P_out   == <<"o","u","t">>
P_nodir == <<"n","o","d","i","r">>

ExistingPaths == {P_a_h5, P_a_tif, P_a_csv, P_A_H5, P_s_shp, P_s_txt, P_out}

\* os.path.exists(path)
exists(path) == path \in ExistingPaths

InputFiles  == {None, Some(P_a_h5), Some(P_a_tif), Some(P_m_h5), Some(P_a_csv),
                Some(P_m_csv), Some(P_A_H5)}
ShapeFiles  == {None, Some(P_s_shp), Some(P_m_shp), Some(P_s_txt)}
OutputDirs  == {P_out, P_nodir}
FillTexts   == {default_fill_value, <<"7">>, <<"x","1">>, <<>>}
\* The --DEFAULT_FILL of the orders on the HDF5 input files: a number other
\* than the default.
ValidFillTexts == {<<"7">>}

\* f"{value}" of an optional integer / an optional path
format_status(exit_status) ==
    IF exit_status = None THEN "None" ELSE ToString(TheValue(exit_status))
format_path(path) ==
    IF path = None THEN <<"N","o","n","e">> ELSE TheValue(path)

NoResponse ==
    [root |-> "", Code |-> "", Message |-> <<>>, failed_with_code |-> "",
     downloadUrls |-> <<>>, INFILE |-> <<>>, SHAPEFILE |-> <<>>, OUTFILE |-> <<>>]

\* get_xml_error_response(exit_status=None, error_message=None, code="InternalError")
get_xml_error_response(exit_status, error_message) ==
    LET code == IF exit_status = Some(1) THEN "InvalidParameterValue"
                ELSE IF exit_status = Some(2) THEN "MissingParameterValue"
                ELSE IF exit_status = Some(3) THEN "NoMatchingData"
                ELSE "InternalError"
        status == IF exit_status \in {Some(1), Some(2), Some(3)}
                  THEN exit_status ELSE None
        message ==
            IF error_message # None THEN TheValue(error_message)
            ELSE IF exit_status = Some(1)
                 THEN <<"Incorrect parameter specified for given dataset(s).">>
            ELSE IF exit_status = Some(2)
                 THEN <<"No parameter value(s) specified for given dataset(s).">>
            ELSE IF exit_status = Some(3)
                 THEN <<"No data found that matched the subset constraints.">>
            ELSE <<"An internal error occurred.">>
    IN [NoResponse EXCEPT !.root = "iesi:Exception",
                          !.Code = code,
                          !.Message = message,
                          !.failed_with_code = format_status(status)]

\* get_xml_success_response(input_file, shape_file, output_file)
get_xml_success_response(input_file, shape_file, output_file) ==
    [NoResponse EXCEPT !.root = "ns2:agentResponse",
                       !.downloadUrls = format_path(output_file),
                       !.INFILE = input_file,
                       !.SHAPEFILE = shape_file,
                       !.OUTFILE = format_path(output_file)]

\* A validation whose tests of the file types ignore the case.
\* DispatchIsExclusive tells it apart from validate_input_parameters.
validate_any_case(params) ==
    LET ret(status, message) ==
            {[error_message |-> Some(get_xml_error_response(Some(status), Some(message))),
              fill_value |-> None]}
    IN
    IF params.input_file = None
    THEN ret(2, <<"An input data file is required for the mask fill utility">>)
    ELSE IF params.shape_file = None
    THEN ret(2, <<"A shapefile is required for the mask fill utility">>)
    ELSE IF /\ ~endswith(lower(TheValue(params.input_file)), T_tif)
            /\ ~endswith(lower(TheValue(params.input_file)), T_h5)
    THEN ret(1, <<"The input data file must be a GeoTIFF or HDF5 file type">>)
    ELSE IF ~endswith(lower(TheValue(params.shape_file)), T_shp)
    THEN ret(1, <<"The input shapefile must be a .shp file type">>)
    ELSE LET paths == {TheValue(params.input_file), TheValue(params.shape_file),
                       params.output_dir}
             missing == {path \in paths : ~exists(path)}
         IN IF missing # {}
            THEN UNION {ret(2, <<"The path ">> \o path \o <<" does not exist">>) :
                        path \in missing}
            ELSE IF float(params.fill_value) = None
            THEN ret(1, <<"The default fill value must be a number">>)
            ELSE {[error_message |-> None, fill_value |-> float(params.fill_value)]}

\* A validation that tests the existence of the paths before the file types.
\* ValidationReportsFirstFailingCheck tells it apart from
\* validate_input_parameters.
validate_paths_first(params) ==
    LET ret(status, message) ==
            {[error_message |-> Some(get_xml_error_response(Some(status), Some(message))),
              fill_value |-> None]}
    IN
    IF params.input_file = None
    THEN ret(2, <<"An input data file is required for the mask fill utility">>)
    ELSE IF params.shape_file = None
    THEN ret(2, <<"A shapefile is required for the mask fill utility">>)
    ELSE LET paths == {TheValue(params.input_file), TheValue(params.shape_file),
                       params.output_dir}
             missing == {path \in paths : ~exists(path)}
         IN IF missing # {}
            THEN UNION {ret(2, <<"The path ">> \o path \o <<" does not exist">>) :
                        path \in missing}
            ELSE IF /\ ~endswith(TheValue(params.input_file), T_tif)
                    /\ ~endswith(TheValue(params.input_file), T_h5)
            THEN ret(1, <<"The input data file must be a GeoTIFF or HDF5 file type">>)
            ELSE IF ~endswith(TheValue(params.shape_file), T_shp)
            THEN ret(1, <<"The input shapefile must be a .shp file type">>)
            ELSE IF float(params.fill_value) = None
            THEN ret(1, <<"The default fill value must be a number">>)
            ELSE {[error_message |-> None, fill_value |-> float(params.fill_value)]}

\* The values validate_input_parameters(params) can return: None (valid) or
\* an error response.  The paths are walked as a Python set, so any one of
\* the missing paths may be the one reported.  fill_value is the value
\* params.fill_value holds afterwards.
validate_input_parameters(params) ==
    LET ret(status, message) ==
            {[error_message |-> Some(get_xml_error_response(Some(status), Some(message))),
              fill_value |-> None]}
    IN
    IF params.input_file = None
    THEN ret(2, <<"An input data file is required for the mask fill utility">>)
    ELSE IF params.shape_file = None
    THEN ret(2, <<"A shapefile is required for the mask fill utility">>)
    ELSE IF /\ ~endswith(TheValue(params.input_file), T_tif)
            /\ ~endswith(TheValue(params.input_file), T_h5)
    THEN ret(1, <<"The input data file must be a GeoTIFF or HDF5 file type">>)
    ELSE IF ~endswith(TheValue(params.shape_file), T_shp)
    THEN ret(1, <<"The input shapefile must be a .shp file type">>)
    ELSE LET paths == {TheValue(params.input_file), TheValue(params.shape_file),
                       params.output_dir}
             missing == {path \in paths : ~exists(path)}
         IN IF missing # {}
            THEN UNION {ret(2, <<"The path ">> \o path \o <<" does not exist">>) :
                        path \in missing}
            ELSE IF float(params.fill_value) = None
            THEN ret(1, <<"The default fill value must be a number">>)
            ELSE {[error_message |-> None, fill_value |-> float(params.fill_value)]}

----------------------------------------------------------------------------
(* Results of calls that may raise *)

Return(v) == [raised |-> FALSE, value |-> v, type |-> "", text |-> ""]
Raise(type, text) == [raised |-> TRUE, value |-> <<>>, type |-> type, text |-> text]

CFComplianceError == "CFComplianceError"

\* repr(e)
repr(e) == <<e.type, "(", e.text, ")">>

----------------------------------------------------------------------------
(* HDF5 files: a tree of groups whose leaves are datasets.  A node is named *)
(* by its path from the root group; a file's content maps the path of each *)
(* dataset to its shape, data and attributes.                              *)

Max(S) == CHOOSE m \in S : \A n \in S : n <= m

GroupAt(depth) == [i \in 1..depth |-> "g"]
Groups == {GroupAt(k) : k \in 0..MaxDepth}
IsGroup(path) == path \in Groups

\* A traversal that does not descend: the children of the root group without
\* its subgroups.  OutputIsMaskFilled tells it apart from items.
items_of_root_only(group) ==
    <<<<"crs">>, <<"cube">>, <<"d">>, <<"lat">>, <<"lon">>, <<"x">>, <<"y">>>>

\* obj.items(): the children of a group in the library's iteration order
\* (by name).  The root group also holds the dimension scales, the grid
\* mapping dataset and a 3-D dataset.
items(group) ==
    LET sub == IF Len(group) < MaxDepth THEN <<group \o <<"g">>>> ELSE <<>>
    IN IF group = <<>>
       THEN <<<<"crs">>, <<"cube">>, <<"d">>>> \o sub
            \o <<<<"lat">>, <<"lon">>, <<"x">>, <<"y">>>>
       ELSE <<group \o <<"d">>>> \o sub

GridPaths == {g \o <<"d">> : g \in Groups}
DatasetPaths == GridPaths \cup {<<"crs">>, <<"cube">>, <<"lat">>, <<"lon">>, <<"x">>, <<"y">>}

Cells(shape) == (1..shape[1]) \X (1..shape[2])
GridShape == <<2, 3>>

T_degrees_north == T_degrees \o <<"_","n","o","r","t","h">>
T_degrees_east  == T_degrees \o <<"_","e","a","s","t">>

Scale(values, units) ==
    [shape |-> <<Len(values)>>, data |-> values, attrs |-> ("units" :> units)]

\* The datasets every input file holds beside its 2-D grids.
FixedDatasets ==
    (<<"lat">> :> Scale(<<50, 40>>, T_degrees_north))
 @@ (<<"lon">> :> Scale(<<10, 12, 14>>, T_degrees_east))
 @@ (<<"y">>   :> Scale(<<400, 200>>, <<"m">>))
 @@ (<<"x">>   :> Scale(<<100, 200, 300>>, <<"m">>))
 @@ (<<"crs">> :> [shape |-> <<>>, data |-> <<>>,
                   attrs |-> ("grid_mapping_name" :> "polar_stereographic")
                          @@ ("standard_parallel" :> 70)])
 @@ (<<"cube">> :> [shape |-> <<1, 2, 3>>,
                    data |-> [c \in (1..1) \X (1..2) \X (1..3) |-> c[2] + c[3]],
                    attrs |-> ("_FillValue" :> 0) @@ ("observed_max" :> 9)
                           @@ ("observed_min" :> 9)])

\* The 2-D grids an input file may hold.
GeoDims  == "DIMENSION_LIST" :> <<<<"lat">>, <<"lon">>>>
ProjDims == ("DIMENSION_LIST" :> <<<<"y">>, <<"x">>>>) @@ ("grid_mapping" :> <<"crs">>)
Stats == ("observed_max" :> 99) @@ ("observed_min" :> 99)
      @@ ("observed_mean" :> [num |-> 99, den |-> 1])

GridProfiles ==
    { \* geographic, declared fill value, all statistics
      [shape |-> GridShape, data |-> [c \in Cells(GridShape) |-> c[1] + c[2]],
       attrs |-> GeoDims @@ ("_FillValue" :> 0) @@ Stats],
      \* geographic, no declared fill value, no statistics
      [shape |-> GridShape, data |-> [c \in Cells(GridShape) |-> 10 * c[1] + c[2]],
       attrs |-> GeoDims],
      \* projected (grid mapping), declared fill value, mean only
      [shape |-> GridShape, data |-> [c \in Cells(GridShape) |-> c[1] * c[2]],
       attrs |-> ProjDims @@ ("_FillValue" :> 1) @@ ("observed_mean" :> [num |-> 99, den |-> 1])],
      \* no DIMENSION_LIST
      [shape |-> GridShape, data |-> [c \in Cells(GridShape) |-> 5],
       attrs |-> ("_FillValue" :> 0) @@ ("observed_max" :> 99)],
      \* geographic, only a cell outside every shape differs from the
      \* declared fill value
      [shape |-> GridShape,
       data |-> [c \in Cells(GridShape) |-> IF c = <<2, 1>> THEN 8 ELSE 0],
       attrs |-> GeoDims @@ ("_FillValue" :> 0) @@ ("observed_min" :> 99)] }

InputFilesH5 ==
    {grids @@ FixedDatasets : grids \in [GridPaths -> GridProfiles]}

----------------------------------------------------------------------------
(* The projection-metadata readers.  A definition named ..._from takes the  *)
(* results of the calls its function makes first and is the rest of that   *)
(* function.                                                               *)

GeographicProj4 == <<"+proj=longlat +ellps=WGS84 +datum=WGS84 +no_defs">>

\* A loop that keeps the first reference of a length instead of the last.
\* SquareDatasetsGetOneDimension tells it apart from LastOfLength.
FirstOfLength(file, dim_list, n) ==
    LET hits == {i \in DOMAIN dim_list : file[dim_list[i]].shape[1] = n}
    IN IF hits = {} THEN None
       ELSE Some(dim_list[CHOOSE i \in hits : \A j \in hits : i <= j])

\* The dimension scale the loop leaves in a slot: the last reference of
\* DIMENSION_LIST whose length is n; none when no reference has that length.
LastOfLength(file, dim_list, n) ==
    LET hits == {i \in DOMAIN dim_list : file[dim_list[i]].shape[1] = n}
    IN IF hits = {} THEN None ELSE Some(dim_list[Max(hits)])

\* "return x, y" after the loop of get_dimension_datasets
return_x_y(x, y) ==
    IF x = None \/ y = None
    THEN Raise("UnboundLocalError", "local variable referenced before assignment")
    ELSE Return(Some(<<TheValue(x), TheValue(y)>>))

\* The loop of get_dimension_datasets over the references of DIMENSION_LIST.
DimensionLoop(file, path) ==
    return_x_y(LastOfLength(file, file[path].attrs["DIMENSION_LIST"], file[path].shape[2]),
               LastOfLength(file, file[path].attrs["DIMENSION_LIST"], file[path].shape[1]))

\* H5GridProjectionInfo.get_dimension_datasets(h5_dataset)
H5GridProjectionInfo_get_dimension_datasets(file, path) ==
    IF "DIMENSION_LIST" \notin DOMAIN file[path].attrs
    THEN Raise(CFComplianceError, "The dataset does not have a DIMENSION_LIST attribute")
    ELSE DimensionLoop(file, path)

\* A legacy get_dimension_datasets that raises the CF-compliance error.
\* PackagedAloneUsesStrictReader tells it apart from
\* GridProjectionInfo_get_dimension_datasets.
dimension_datasets_or_cf_error(file, path) ==
    IF "DIMENSION_LIST" \in DOMAIN file[path].attrs
    THEN DimensionLoop(file, path)
    ELSE Raise(CFComplianceError, "The dataset does not have a DIMENSION_LIST attribute")

\* GridProjectionInfo.get_dimension_datasets(h5_dataset): falls off the end,
\* returning None, when there is no DIMENSION_LIST.
GridProjectionInfo_get_dimension_datasets(file, path) ==
    IF "DIMENSION_LIST" \in DOMAIN file[path].attrs
    THEN DimensionLoop(file, path)
    ELSE Return(None)

\* CRS.from_cf(cf_parameters).to_dict(): the proj parameters of the CRS the
\* CF parameters describe.  Its keys are proj parameter names (proj, lat_ts,
\* lat_1, ...), never CF names: the library turns the standard_parallel of a
\* polar stereographic grid into lat_ts and that of a Lambert conformal conic
\* grid into lat_1.
CRS_from_cf_to_dict(cf_parameters) ==
    ("proj" :> IF cf_parameters["grid_mapping_name"] = "polar_stereographic"
               THEN "stere" ELSE "lcc")
 @@ (IF "standard_parallel" \notin DOMAIN cf_parameters THEN <<>>
     ELSE IF cf_parameters["grid_mapping_name"] = "polar_stereographic"
     THEN "lat_ts" :> cf_parameters["standard_parallel"]
     ELSE "lat_1" :> cf_parameters["standard_parallel"])

\* CRS.from_dict(dictionary).to_proj4(): the parameters of the dictionary.
CRS_from_dict_to_proj4(dictionary) ==
    <<"+proj=", dictionary["proj"]>>
 \o (IF "lat_1" \in DOMAIN dictionary
     THEN <<" +lat_1=", ToString(dictionary["lat_1"])>> ELSE <<>>)
 \o (IF "lat_ts" \in DOMAIN dictionary
     THEN <<" +lat_ts=", ToString(dictionary["lat_ts"])>> ELSE <<>>)

\* if 'standard_parallel' in dictionary:
\*     dictionary['lat_ts'] = cf_parameters['standard_parallel']
copy_standard_parallel(cf_parameters, dictionary) ==
    IF "standard_parallel" \in DOMAIN dictionary
    THEN ("lat_ts" :> cf_parameters["standard_parallel"]) @@ dictionary
    ELSE dictionary

get_proj4_strict_from(cf_parameters, dictionary) ==
    Return(CRS_from_dict_to_proj4(copy_standard_parallel(cf_parameters, dictionary)))

\* H5GridProjectionInfo.get_proj4(grid_mapping)
H5GridProjectionInfo_get_proj4(grid_mapping) ==
    get_proj4_strict_from(grid_mapping.attrs, CRS_from_cf_to_dict(grid_mapping.attrs))

\* GridProjectionInfo.get_proj4(grid_mapping)
GridProjectionInfo_get_proj4(grid_mapping) ==
    IF "standard_parallel" \notin DOMAIN grid_mapping.attrs
    THEN Raise("KeyError", "'standard_parallel'")
    ELSE Return(CRS_from_dict_to_proj4(
             ("lat_ts" :> grid_mapping.attrs["standard_parallel"])
             @@ CRS_from_cf_to_dict(grid_mapping.attrs)))

\* A get_hdf_proj4 that asks for grid_mapping before it looks at the units.
\* StrictReaderCFCases tells it apart from get_hdf_proj4_strict_from.
hdf_proj4_grid_mapping_first(file, path, dimensions) ==
    IF dimensions.raised THEN dimensions
    ELSE IF "units" \notin DOMAIN file[TheValue(dimensions.value)[1]].attrs
    THEN Raise(CFComplianceError, "The dataset does not have a units attribute")
    ELSE IF "grid_mapping" \notin DOMAIN file[path].attrs
    THEN Raise(CFComplianceError,
               "The dataset is not geographically gridded and does not have a grid mapping attribute")
    ELSE IF contains(file[TheValue(dimensions.value)[1]].attrs["units"], T_degrees)
    THEN Return(GeographicProj4)
    ELSE H5GridProjectionInfo_get_proj4(file[file[path].attrs["grid_mapping"]])

get_hdf_proj4_strict_from(file, path, dimensions) ==
    IF dimensions.raised THEN dimensions
    ELSE IF "units" \notin DOMAIN file[TheValue(dimensions.value)[1]].attrs
    THEN Raise(CFComplianceError, "The dataset does not have a units attribute")
    ELSE IF contains(file[TheValue(dimensions.value)[1]].attrs["units"], T_degrees)
    THEN Return(GeographicProj4)
    ELSE IF "grid_mapping" \notin DOMAIN file[path].attrs
    THEN Raise(CFComplianceError,
               "The dataset is not geographically gridded and does not have a grid mapping attribute")
    ELSE H5GridProjectionInfo_get_proj4(file[file[path].attrs["grid_mapping"]])

\* H5GridProjectionInfo.get_hdf_proj4(h5_dataset)
H5GridProjectionInfo_get_hdf_proj4(file, path) ==
    get_hdf_proj4_strict_from(file, path,
                              H5GridProjectionInfo_get_dimension_datasets(file, path))

get_hdf_proj4_legacy_from(file, path, dimensions) ==
    IF dimensions.raised THEN dimensions
    ELSE IF dimensions.value = None
    THEN Raise("TypeError", "'NoneType' object is not subscriptable")
    ELSE IF "units" \notin DOMAIN file[TheValue(dimensions.value)[1]].attrs
    THEN Raise("KeyError", "'units'")
    ELSE IF contains(file[TheValue(dimensions.value)[1]].attrs["units"], T_degrees)
    THEN Return(GeographicProj4)
    ELSE IF "grid_mapping" \notin DOMAIN file[path].attrs
    THEN Raise("KeyError", "'grid_mapping'")
    ELSE GridProjectionInfo_get_proj4(file[file[path].attrs["grid_mapping"]])

\* GridProjectionInfo.get_hdf_proj4(h5_dataset)
GridProjectionInfo_get_hdf_proj4(file, path) ==
    get_hdf_proj4_legacy_from(file, path,
                              GridProjectionInfo_get_dimension_datasets(file, path))

\* affine.Affine(cell_width, 0, x_min, 0, cell_height, y_max) from the
\* dimension arrays x and y (get_cell_size, get_corner_points)
Affine_of(x, y) ==
    LET cell_width == x[2] - x[1]
        cell_height == y[2] - y[1]
        x_min == x[1] - (cell_width \div 2)
        y_max == y[1] - (cell_height \div 2)
    IN <<cell_width, 0, x_min, 0, cell_height, y_max>>

get_transform_from(file, dimensions) ==
    IF dimensions.raised THEN dimensions
    ELSE IF dimensions.value = None
    THEN Raise("TypeError", "cannot unpack non-iterable NoneType object")
    ELSE Return(Affine_of(file[TheValue(dimensions.value)[1]].data,
                          file[TheValue(dimensions.value)[2]].data))

\* H5GridProjectionInfo.get_transform(h5_dataset), with get_cell_size,
\* get_corner_points and get_dimension_arrays
H5GridProjectionInfo_get_transform(file, path) ==
    get_transform_from(file, H5GridProjectionInfo_get_dimension_datasets(file, path))

\* GridProjectionInfo.get_transform(h5_dataset), with get_cell_size,
\* get_corner_points and get_dimension_arrays
GridProjectionInfo_get_transform(file, path) ==
    get_transform_from(file, GridProjectionInfo_get_dimension_datasets(file, path))

\* A get_fill_value that ignores the declaration.  FillValueIsDeclaredElseDefault
\* tells it apart from get_fill_value.
default_fill_only(h5_dataset, default_fill) == default_fill

\* get_fill_value(h5_dataset, default_fill_value), the same in
\* H5MaskFill.py and H5GridProjectionInfo.py
get_fill_value(h5_dataset, default_fill) ==
    IF "_FillValue" \in DOMAIN h5_dataset.attrs
    THEN h5_dataset.attrs["_FillValue"]
    ELSE default_fill

----------------------------------------------------------------------------
(* The core mask engine (MaskFill) *)

\* MaskFill.get_projected_shapes(proj4, shape_path): the shapes of the
\* shapefile in the CRS of proj4, here one box in that CRS.
get_projected_shapes(proj4, shape_path) ==
    IF proj4 = GeographicProj4
    THEN [x_lo |-> 9, x_hi |-> 13, y_lo |-> 45, y_hi |-> 55]
    ELSE [x_lo |-> 150, x_hi |-> 350, y_lo |-> 100, y_hi |-> 300]

\* MaskFill.get_mask_array(shapes, shape, transform): True where the centre
\* of the cell, placed by the affine transform, lies inside a shape.
rasterize(shapes, shape, transform) ==
    [c \in Cells(shape) |->
        LET x == transform[3] + transform[1] * (c[2] - 1) + (transform[1] \div 2)
            y == transform[6] + transform[5] * (c[1] - 1) + (transform[5] \div 2)
        IN /\ shapes.x_lo <= x /\ x <= shapes.x_hi
           /\ shapes.y_lo <= y /\ y <= shapes.y_hi]

\* MaskFill.mask_fill_array(raster_arr, mask_array, fill_value)
mask_fill_array(raster_arr, mask_array, fill) ==
    [c \in DOMAIN raster_arr |-> IF mask_array[c] THEN raster_arr[c] ELSE fill]

\* MaskFill.get_masked_file_path(file_path, output_dir)
get_masked_file_path(file_path, output_dir) ==
    output_dir \o <<"/">> \o <<"m","f","_">> \o file_path

----------------------------------------------------------------------------
(* Mask-array cache keys and files *)

\* str() of a natural number and of an integer, as text
RECURSIVE str_nat(_)
str_nat(n) ==
    IF n < 10 THEN <<Digits[n + 1]>>
    ELSE str_nat(n \div 10) \o <<Digits[(n % 10) + 1]>>
str_int(n) == IF n < 0 THEN <<"-">> \o str_nat(0 - n) ELSE str_nat(n)

\* separator.join(texts)
RECURSIVE join(_, _)
join(texts, separator) ==
    IF texts = <<>> THEN <<>>
    ELSE IF Len(texts) = 1 THEN texts[1]
    ELSE texts[1] \o separator \o join(Tail(texts), separator)

\* The text of a shape without brackets and separators.  KeysAreInjective
\* tells it apart from str_shape.
digits_of_shape(shape) ==
    join([i \in DOMAIN shape |-> str_int(shape[i])], <<>>)

\* str(dataset_shape) of a tuple of two or more integers
str_shape(shape) ==
    <<"(">> \o join([i \in DOMAIN shape |-> str_int(shape[i])], <<",", " ">>) \o <<")">>

\* "% .2f" % n for an integer n
format_2f(n) ==
    (IF n < 0 THEN <<"-">> \o str_nat(0 - n) ELSE <<" ">> \o str_nat(n))
    \o <<".", "0", "0">>

\* One row "|% .2f,% .2f,% .2f|" of the text of an affine transform
str_row(a, b, c) ==
    <<"|">> \o join(<<format_2f(a), format_2f(b), format_2f(c)>>, <<",">>) \o <<"|">>

\* str(transform) of affine.Affine(a, b, c, d, e, f): three rows, the last
\* one 0, 0, 1
str_transform(transform) ==
    join(<<str_row(transform[1], transform[2], transform[3]),
           str_row(transform[4], transform[5], transform[6]),
           str_row(0, 0, 1)>>, <<"\n">>)

\* hashlib.sha224(text.encode()).hexdigest(), taken as injective
sha224(text) == <<"sha224:">> \o text

\* MaskFillCaching.create_mask_array_id(proj_string, transform, dataset_shape, shape_file_path)
create_mask_array_id(proj_string, transform, dataset_shape, shape_file_path) ==
    sha224(proj_string \o str_transform(transform) \o str_shape(dataset_shape)
           \o shape_file_path)

pymods_mask_array_id_from(proj_string, transform, dataset_shape, shape_path) ==
    IF proj_string.raised THEN proj_string
    ELSE IF transform.raised THEN transform
    ELSE Return(create_mask_array_id(proj_string.value, transform.value,
                                     dataset_shape, shape_path))

\* pymods/H5MaskFill.get_mask_array_id(h5_dataset, shape_path)
pymods_get_mask_array_id(file, path, shape_path) ==
    pymods_mask_array_id_from(H5GridProjectionInfo_get_hdf_proj4(file, path),
                              H5GridProjectionInfo_get_transform(file, path),
                              file[path].shape, shape_path)

flat_mask_array_id_from(proj4, transform, dataset_shape, shape_path) ==
    IF proj4.raised THEN proj4
    ELSE IF transform.raised THEN transform
    ELSE Return(sha224(proj4.value \o str_transform(transform.value)
                       \o str_shape(dataset_shape) \o shape_path))

\* H5MaskFill.get_mask_array_id(h5_dataset, shape_path)
flat_get_mask_array_id(file, path, shape_path) ==
    flat_mask_array_id_from(GridProjectionInfo_get_hdf_proj4(file, path),
                            GridProjectionInfo_get_transform(file, path),
                            file[path].shape, shape_path)

\* get_mask_array_path(mask_id, cache_dir) / get_mask_array_path_from_id
get_mask_array_path(mask_id, cache_dir) ==
    cache_dir \o <<"/">> \o mask_id \o T_npy

create_mask_array_from(proj4, transform, dataset_shape, shape_path) ==
    IF proj4.raised THEN proj4
    ELSE IF transform.raised THEN transform
    ELSE Return(rasterize(get_projected_shapes(proj4.value, shape_path),
                          dataset_shape, transform.value))

\* pymods/H5MaskFill.create_mask_array(h5_dataset, shape_path)
pymods_create_mask_array(file, path, shape_path) ==
    create_mask_array_from(H5GridProjectionInfo_get_hdf_proj4(file, path),
                           H5GridProjectionInfo_get_transform(file, path),
                           file[path].shape, shape_path)

\* H5MaskFill.create_mask_array(h5_dataset, shape_path)
flat_create_mask_array(file, path, shape_path) ==
    create_mask_array_from(GridProjectionInfo_get_hdf_proj4(file, path),
                           GridProjectionInfo_get_transform(file, path),
                           file[path].shape, shape_path)

\* A test that loads whatever file exists.  CacheIsReadOnlyInUseModes tells it
\* apart from may_load.
file_exists(mask_grid_cache, mask_array_path, files) ==
    mask_array_path \in DOMAIN files

\* The test of get_cached_mask_array for loading the file at mask_array_path
\* of the cache directory (files).
may_load(mask_grid_cache, mask_array_path, files) ==
    contains(mask_grid_cache, T_use) /\ mask_array_path \in DOMAIN files

get_cached_mask_array_from(mask_id, cache_dir, mask_grid_cache, files) ==
    IF mask_id.raised THEN mask_id
    ELSE IF may_load(mask_grid_cache, get_mask_array_path(mask_id.value, cache_dir), files)
    THEN Return(Some(files[get_mask_array_path(mask_id.value, cache_dir)].array))
    ELSE Return(None)

\* MaskFillCaching.get_cached_mask_array(data, shape_path, cache_dir, mask_grid_cache):
\* the mask loaded from the cache directory (files), or None
get_cached_mask_array(file, path, shape_path, cache_dir, mask_grid_cache, files) ==
    get_cached_mask_array_from(pymods_get_mask_array_id(file, path, shape_path),
                               cache_dir, mask_grid_cache, files)

\* What one call of get_mask_array gives back: the mask array, the in-run
\* cache afterwards, and where the array came from.
Resolved(mask_id, mask_array, saved, source) ==
    [raised |-> FALSE, type |-> "", text |-> "", mask_id |-> mask_id,
     mask_array |-> mask_array, saved |-> (mask_id :> mask_array) @@ saved,
     source |-> source]
Failed(result, saved) ==
    [raised |-> TRUE, type |-> result.type, text |-> result.text, mask_id |-> <<>>,
     mask_array |-> <<>>, saved |-> saved, source |-> ""]

\* A get_mask_array that does not look into the in-run cache.
\* InRunCacheComesFirst tells it apart from pymods_get_mask_array_from.
get_mask_array_without_memory(mask_id, cached, created, saved) ==
    IF mask_id.raised THEN Failed(mask_id, saved)
    ELSE IF cached.raised THEN Failed(cached, saved)
    ELSE IF cached.value # None
    THEN Resolved(mask_id.value, TheValue(cached.value), saved, "disk")
    ELSE IF created.raised THEN Failed(created, saved)
    ELSE Resolved(mask_id.value, created.value, saved, "fresh")

pymods_get_mask_array_from(mask_id, cached, created, saved) ==
    IF mask_id.raised THEN Failed(mask_id, saved)
    ELSE IF mask_id.value \in DOMAIN saved
    THEN Resolved(mask_id.value, saved[mask_id.value], saved, "memory")
    ELSE IF cached.raised THEN Failed(cached, saved)
    ELSE IF cached.value # None
    THEN Resolved(mask_id.value, TheValue(cached.value), saved, "disk")
    ELSE IF created.raised THEN Failed(created, saved)
    ELSE Resolved(mask_id.value, created.value, saved, "fresh")

\* pymods/H5MaskFill.get_mask_array(h5_dataset, shape_path, cache_dir,
\*                                  mask_grid_cache, saved_mask_arrays)
pymods_get_mask_array(file, path, shape_path, cache_dir, mask_grid_cache, saved, files) ==
    pymods_get_mask_array_from(
        pymods_get_mask_array_id(file, path, shape_path),
        get_cached_mask_array(file, path, shape_path, cache_dir, mask_grid_cache, files),
        pymods_create_mask_array(file, path, shape_path),
        saved)

flat_get_mask_array_from(mask_id, created, cache_dir, mask_grid_cache, saved, files) ==
    IF mask_id.raised THEN Failed(mask_id, saved)
    ELSE IF mask_id.value \in DOMAIN saved
    THEN Resolved(mask_id.value, saved[mask_id.value], saved, "memory")
    ELSE IF /\ contains(mask_grid_cache, T_use)
            /\ get_mask_array_path(mask_id.value, cache_dir) \in DOMAIN files
    THEN Resolved(mask_id.value, files[get_mask_array_path(mask_id.value, cache_dir)].array,
                  saved, "disk")
    ELSE IF created.raised THEN Failed(created, saved)
    ELSE Resolved(mask_id.value, created.value, saved, "fresh")

\* H5MaskFill.get_mask_array(h5_dataset, shape_path, cache_dir,
\*                           mask_grid_cache, saved_mask_arrays)
flat_get_mask_array(file, path, shape_path, cache_dir, mask_grid_cache, saved, files) ==
    flat_get_mask_array_from(flat_get_mask_array_id(file, path, shape_path),
                             flat_create_mask_array(file, path, shape_path),
                             cache_dir, mask_grid_cache, saved, files)

----------------------------------------------------------------------------
(* The per-dataset step of the HDF5 pipelines *)

RECURSIVE SumOver(_, _)
SumOver(grid, cells) ==
    IF cells = {} THEN 0
    ELSE LET c == CHOOSE c \in cells : TRUE
         IN grid[c] + SumOver(grid, cells \ {c})

Min(S) == CHOOSE m \in S : \A n \in S : m <= n
Mean(num, den) == [num |-> num, den |-> den]

Statistics(raised, text, attrs) ==
    [raised |-> raised, type |-> IF raised THEN "ValueError" ELSE "", text |-> text,
     attrs |-> attrs]

\* The statistics attributes of mask_fill: each of observed_max, observed_min
\* and observed_mean the dataset carries is modified to the statistic of the
\* values of the cells (unfilled) that differ from the fill value; max() and
\* min() of no values raise ValueError, np.mean of no values is nan
\* (denominator 0).
update_statistics(attrs, mask_filled_data, unfilled) ==
    IF "observed_max" \in DOMAIN attrs /\ unfilled = {}
    THEN Statistics(TRUE, "max() arg is an empty sequence", attrs)
    ELSE IF "observed_min" \in DOMAIN attrs /\ unfilled = {}
    THEN Statistics(TRUE, "min() arg is an empty sequence", attrs)
    ELSE Statistics(FALSE, "",
            [name \in DOMAIN attrs |->
                IF name = "observed_max"
                THEN Max({mask_filled_data[c] : c \in unfilled})
                ELSE IF name = "observed_min"
                THEN Min({mask_filled_data[c] : c \in unfilled})
                ELSE IF name = "observed_mean"
                THEN Mean(SumOver(mask_filled_data, unfilled), Cardinality(unfilled))
                ELSE attrs[name]])

\* The outcome of mask_fill on one dataset: the file and the in-run cache
\* afterwards, the calls of get_mask_array made, and the failure raised.
Outcome(file, saved, calls, failure) ==
    [file |-> file, saved |-> saved, calls |-> calls,
     raised |-> failure.raised, type |-> failure.type, text |-> failure.text]
NoFailure == [raised |-> FALSE, type |-> "", text |-> ""]

\* The record of one call of get_mask_array that returned: the key, the
\* array returned and where it came from.
Call(resolved) ==
    [mask_id |-> resolved.mask_id, mask_array |-> resolved.mask_array,
     source |-> resolved.source]

\* h5_dataset.write_direct(mask_filled_data), then the statistics (stats)
write_direct(file, path, mask_filled_data, stats) ==
    [file EXCEPT ![path] = [shape |-> file[path].shape, data |-> mask_filled_data,
                            attrs |-> stats.attrs]]

\* A step that computes the statistics before it writes the filled grid, so
\* that a failing statistic leaves the data as it was.
\* StatisticsFollowTheWrite tells it apart from fill_and_write_from.
statistics_before_write(file, path, resolved, mask_filled_data, fill) ==
    Outcome(IF update_statistics(file[path].attrs, mask_filled_data,
                   {c \in DOMAIN mask_filled_data : mask_filled_data[c] # fill}).raised
            THEN file
            ELSE write_direct(file, path, mask_filled_data,
                     update_statistics(file[path].attrs, mask_filled_data,
                         {c \in DOMAIN mask_filled_data : mask_filled_data[c] # fill})),
            resolved.saved,
            <<Call(resolved)>>,
            update_statistics(file[path].attrs, mask_filled_data,
                {c \in DOMAIN mask_filled_data : mask_filled_data[c] # fill}))

fill_and_write_from(file, path, resolved, mask_filled_data, fill) ==
    Outcome(write_direct(file, path, mask_filled_data,
                update_statistics(file[path].attrs, mask_filled_data,
                    {c \in DOMAIN mask_filled_data : mask_filled_data[c] # fill})),
            resolved.saved,
            <<Call(resolved)>>,
            update_statistics(file[path].attrs, mask_filled_data,
                {c \in DOMAIN mask_filled_data : mask_filled_data[c] # fill}))

\* A step that fills and writes in every mode.  MaskgridOnlyWritesNoData tells
\* it apart from fill_and_write.
fill_and_write_in_every_mode(file, path, resolved, mask_grid_cache, default_fill) ==
    fill_and_write_from(file, path, resolved,
        mask_fill_array(file[path].data, resolved.mask_array,
                        get_fill_value(file[path], default_fill)),
        get_fill_value(file[path], default_fill))

\* mask_fill after get_mask_array (the same statements in both generations):
\* unless the mode is maskgrid_only the filled grid is written with
\* write_direct and then the statistics are modified.
fill_and_write(file, path, resolved, mask_grid_cache, default_fill) ==
    IF mask_grid_cache # maskgrid_only
    THEN fill_and_write_from(file, path, resolved,
            mask_fill_array(file[path].data, resolved.mask_array,
                            get_fill_value(file[path], default_fill)),
            get_fill_value(file[path], default_fill))
    ELSE Outcome(file, resolved.saved,
                 <<Call(resolved)>>,
                 NoFailure)

mask_fill_from(file, path, resolved, mask_grid_cache, default_fill, saved) ==
    IF resolved.raised THEN Outcome(file, saved, <<>>, resolved)
    ELSE fill_and_write(file, path, resolved, mask_grid_cache, default_fill)

\* H5MaskFill.mask_fill(h5_dataset, shape_path, cache_dir, mask_grid_cache,
\*                      default_fill_value, saved_mask_arrays)
flat_mask_fill(file, path, shape_path, cache_dir, mask_grid_cache, default_fill, saved, files) ==
    IF Len(file[path].shape) # 2 THEN Outcome(file, saved, <<>>, NoFailure)
    ELSE mask_fill_from(file, path,
             flat_get_mask_array(file, path, shape_path, cache_dir, mask_grid_cache,
                                 saved, files),
             mask_grid_cache, default_fill, saved)

\* A mask_fill without the test of the rank.  OnlyRank2DatasetsAreProcessed
\* tells it apart from pymods_mask_fill.
mask_fill_of_any_rank(file, path, shape_path, cache_dir, mask_grid_cache, default_fill, saved, files) ==
    mask_fill_from(file, path,
        pymods_get_mask_array(file, path, shape_path, cache_dir, mask_grid_cache,
                              saved, files),
        mask_grid_cache, default_fill, saved)

\* pymods/H5MaskFill.mask_fill(h5_dataset, shape_path, cache_dir, mask_grid_cache,
\*                             default_fill_value, saved_mask_arrays)
pymods_mask_fill(file, path, shape_path, cache_dir, mask_grid_cache, default_fill, saved, files) ==
    IF Len(file[path].shape) # 2 THEN Outcome(file, saved, <<>>, NoFailure)
    ELSE mask_fill_from(file, path,
             pymods_get_mask_array(file, path, shape_path, cache_dir, mask_grid_cache,
                                   saved, files),
             mask_grid_cache, default_fill, saved)

\* np.save(path, array) for every entry of the in-run cache: the files of the
\* cache directory afterwards.  A file records the invocation that wrote it.
save_all(mask_arrays, cache_dir, files, now) ==
    [p \in {get_mask_array_path(id, cache_dir) : id \in DOMAIN mask_arrays} |->
        [array |-> mask_arrays[CHOOSE id \in DOMAIN mask_arrays :
                                   get_mask_array_path(id, cache_dir) = p],
         saved_in |-> now]]
    @@ files

\* A save in every mode.  UnrecognisedModeFallsThrough tells it apart from
\* flat_save_mask_arrays.
save_in_every_mode(saved, cache_dir, mask_grid_cache, files, now) ==
    save_all(saved, cache_dir, files, now)

\* A save under the rule of the packaged generation.  FlatSavesOnSaveOrMaskgridOnly
\* tells it apart from flat_save_mask_arrays.
save_unless_delete(saved, cache_dir, mask_grid_cache, files, now) ==
    IF ~contains(mask_grid_cache, T_delete)
    THEN save_all(saved, cache_dir, files, now)
    ELSE files

\* The save at the end of H5MaskFill.produce_masked_hdf
flat_save_mask_arrays(saved, cache_dir, mask_grid_cache, files, now) ==
    IF contains(mask_grid_cache, T_save) \/ mask_grid_cache = maskgrid_only
    THEN save_all(saved, cache_dir, files, now)
    ELSE files

\* A save under the rule of the flat generation.  PackagedSavesUnlessDelete
\* tells it apart from cache_mask_arrays.
save_on_save_or_maskgrid_only(mask_arrays, cache_dir, mask_grid_cache, files, now) ==
    IF contains(mask_grid_cache, T_save) \/ mask_grid_cache = maskgrid_only
    THEN save_all(mask_arrays, cache_dir, files, now)
    ELSE files

\* MaskFillCaching.cache_mask_arrays(mask_arrays, cache_dir, mask_grid_cache)
cache_mask_arrays(mask_arrays, cache_dir, mask_grid_cache, files, now) ==
    IF ~contains(mask_grid_cache, T_delete)
    THEN save_all(mask_arrays, cache_dir, files, now)
    ELSE files

----------------------------------------------------------------------------
(* The GeoTIFF pipeline *)

InputTifs ==
    {[proj4 |-> GeographicProj4, transform |-> <<2, 0, 9, 0, -10, 55>>,
      shape |-> GridShape, band |-> [c \in Cells(GridShape) |-> c[1] + c[2]],
      nodata |-> n] : n \in {None, Some(0)}}

\* GeotiffMaskFill.get_fill_value(geotiff_path, default_fill_value)
geotiff_get_fill_value(raster, default_fill) ==
    IF raster.nodata = None THEN default_fill ELSE TheValue(raster.nodata)

\* GeotiffMaskFill.produce_masked_geotiff: the content of the output file
produce_masked_geotiff(raster, shape_path, default_fill) ==
    LET mask_array == rasterize(get_projected_shapes(raster.proj4, shape_path),
                                raster.shape, raster.transform)
        fill == geotiff_get_fill_value(raster, default_fill)
    IN [raster EXCEPT !.band = mask_fill_array(raster.band, mask_array, fill)]

----------------------------------------------------------------------------
(* State *)

VARIABLES
    args,              \* the parsed command line (get_input_parameters)
    gen,               \* the HDF5 pipeline behind the command line: "flat" or "pymods"
    infile,            \* the content of the input data file
    original,          \* the content of the input data file before the first invocation
    outfile,           \* the content of the output file, None while there is none
    npy,               \* the .npy files of the cache directory, by path
    run,               \* the number of this invocation
    pc,                \* where the invocation stands
    error_message,     \* mask_fill: what validate_input_parameters returned
    fill_value,        \* params.fill_value after validation
    output_file,       \* mask_fill: the local output_file, unbound at first
    mask_grid_cache,   \* produce_masked_hdf: the lower-cased mode
    saved_mask_arrays, \* produce_masked_hdf: the in-run cache
    opened,            \* process_file: the file opened read-write, "in" or "out"
    todo,              \* process_children: the children still to visit, in order
    calls,             \* the get_mask_array calls of this invocation, in order
    raised,            \* the failure raised inside the try block, None if none
    response,          \* what mask_fill returned, None while running
    probe              \* a single call of one function: its name, input and result

vars == <<args, gen, infile, original, outfile, npy, run, pc, error_message, fill_value,
          output_file, mask_grid_cache, saved_mask_arrays, opened, todo, calls,
          raised, response, probe>>

Generations == {"flat", "pymods"}
Modes == mask_grid_cache_values \cup {MaskGrid_Only, off_mode}

DefaultInput == [p \in GridPaths |->
                    [shape |-> GridShape,
                     data |-> [c \in Cells(GridShape) |-> c[1] + c[2]],
                     attrs |-> GeoDims]] @@ FixedDatasets

\* The mask ids the grids of the input files have.
MaskIds ==
    LET results == {pymods_get_mask_array_id(f, <<"d">>, P_s_shp) : f \in InputFilesH5}
    IN {r.value : r \in {q \in results : ~q.raised}}

\* A mask array left in the cache directory by an earlier order.
EarlierMask == [array |-> [c \in Cells(GridShape) |-> c[2] = 3], saved_in |-> 0]

InitialCaches ==
    {[p \in paths |-> EarlierMask] :
        paths \in SUBSET {get_mask_array_path(id, P_out) : id \in MaskIds}}

\* No single call is under way.
NoProbe == [fn |-> "", input |-> <<>>, result |-> None]

Unbound == [bound |-> FALSE, value |-> None]
Bound(v) == [bound |-> TRUE, value |-> v]

Locals ==
    /\ pc = "validate"
    /\ error_message = None
    /\ fill_value = None
    /\ output_file = Unbound
    /\ mask_grid_cache = <<>>
    /\ saved_mask_arrays = <<>>
    /\ opened = ""
    /\ todo = <<>>
    /\ calls = <<>>
    /\ raised = None
    /\ response = None

\* Command lines of every kind on a fixed input, and well-formed HDF5 orders
\* on every input file, cache directory, mode and pipeline generation.
Init ==
    /\ run = 1
    /\ outfile = None
    /\ probe = NoProbe
    /\ Locals
    /\ \/ /\ args \in [input_file : InputFiles, shape_file : ShapeFiles,
                       output_dir : OutputDirs,
                       mask_grid_cache : {default_mask_grid_cache},
                       fill_value : FillTexts]
          /\ gen = "flat"
          /\ IF args.input_file = Some(P_a_tif)
             THEN infile \in InputTifs ELSE infile = DefaultInput
          /\ npy = <<>>
       \/ /\ args \in [input_file : {Some(P_a_h5)}, shape_file : {Some(P_s_shp)},
                       output_dir : {P_out}, mask_grid_cache : Modes,
                       fill_value : ValidFillTexts]
          /\ gen \in Generations
          /\ infile \in InputFilesH5
          /\ npy \in InitialCaches
    /\ original = infile

----------------------------------------------------------------------------
(* Actions: one invocation of MaskFillUtility.mask_fill *)

world == <<args, gen, original, run, probe>>
hdf == <<mask_grid_cache, saved_mask_arrays, opened, todo, calls>>

\* mask_fill: args = get_input_parameters(); error_message =
\* validate_input_parameters(args); return it unless it is None.
Validate ==
    /\ pc = "validate"
    /\ \E r \in validate_input_parameters(args) :
          /\ error_message' = r.error_message
          /\ fill_value' = r.fill_value
          /\ IF r.error_message # None
             THEN response' = r.error_message /\ pc' = "done"
             ELSE response' = response /\ pc' = "tif"
    /\ UNCHANGED <<world, infile, outfile, npy, output_file, hdf, raised>>

\* mask_fill: the GeoTIFF case, the first of the two tests of the extension.
DispatchGeotiff ==
    /\ pc = "tif"
    /\ IF endswith(lower(TheValue(args.input_file)), T_tif)
       THEN /\ outfile' = Some(produce_masked_geotiff(infile, TheValue(args.shape_file),
                                                      TheValue(fill_value)))
            /\ output_file' = Bound(Some(get_masked_file_path(TheValue(args.input_file),
                                                              args.output_dir)))
       ELSE UNCHANGED <<outfile, output_file>>
    /\ pc' = "h5"
    /\ UNCHANGED <<world, infile, npy, error_message, fill_value, hdf, raised, response>>

\* mask_fill: the HDF5 case, the second test.  produce_masked_hdf lower-cases
\* the mode, copies the input to the output path unless the mode is
\* maskgrid_only, and process_file opens that file read-write.
DispatchHdf ==
    /\ pc = "h5"
    /\ IF endswith(lower(TheValue(args.input_file)), T_h5)
       THEN /\ mask_grid_cache' = lower(args.mask_grid_cache)
            /\ saved_mask_arrays' = <<>>
            /\ IF mask_grid_cache' = maskgrid_only
               THEN opened' = "in" /\ outfile' = outfile
               ELSE opened' = "out" /\ outfile' = Some(infile)
            /\ todo' = items(<<>>)
            /\ pc' = "walk"
       ELSE /\ pc' = "respond"
            /\ UNCHANGED <<mask_grid_cache, saved_mask_arrays, opened, todo, outfile>>
    /\ UNCHANGED <<world, infile, npy, error_message, fill_value, output_file,
                   calls, raised, response>>

\* The file process_file has open.
OpenFile == IF opened = "in" THEN infile ELSE TheValue(outfile)

\* process_children: a child that is a group is entered.
EnterGroup ==
    /\ pc = "walk" /\ todo # <<>> /\ IsGroup(Head(todo))
    /\ todo' = items(Head(todo)) \o Tail(todo)
    /\ UNCHANGED <<world, infile, outfile, npy, pc, error_message, fill_value,
                   output_file, mask_grid_cache, saved_mask_arrays, opened, calls,
                   raised, response>>

\* A step that writes the mask arrays to the cache directory as soon as a
\* dataset has been handled.  NoMaskFileWhenTheWalkFails tells it apart from
\* Apply.
apply_and_save(outcome) ==
    /\ IF opened = "in"
       THEN infile' = outcome.file /\ outfile' = outfile
       ELSE outfile' = Some(outcome.file) /\ infile' = infile
    /\ saved_mask_arrays' = outcome.saved
    /\ npy' = cache_mask_arrays(outcome.saved, args.output_dir, mask_grid_cache,
                                npy, run)
    /\ calls' = calls \o outcome.calls
    /\ IF outcome.raised
       THEN /\ raised' = Some([type |-> outcome.type, text |-> outcome.text])
            /\ pc' = "except"
            /\ todo' = todo
       ELSE /\ raised' = raised
            /\ pc' = pc
            /\ todo' = Tail(todo)
    /\ UNCHANGED <<world, error_message, fill_value, output_file,
                   mask_grid_cache, opened, response>>

\* The effect of the outcome of mask_fill on one dataset.
Apply(outcome) ==
    /\ IF opened = "in"
       THEN infile' = outcome.file /\ outfile' = outfile
       ELSE outfile' = Some(outcome.file) /\ infile' = infile
    /\ saved_mask_arrays' = outcome.saved
    /\ calls' = calls \o outcome.calls
    /\ IF outcome.raised
       THEN /\ raised' = Some([type |-> outcome.type, text |-> outcome.text])
            /\ pc' = "except"
            /\ todo' = todo
       ELSE /\ raised' = raised
            /\ pc' = pc
            /\ todo' = Tail(todo)
    /\ UNCHANGED <<world, npy, error_message, fill_value, output_file,
                   mask_grid_cache, opened, response>>

\* process_children: a child that is a dataset is handed to mask_fill
\* (H5MaskFill.py).
FlatMaskFill ==
    /\ pc = "walk" /\ todo # <<>> /\ ~IsGroup(Head(todo)) /\ gen = "flat"
    /\ Apply(flat_mask_fill(OpenFile, Head(todo), TheValue(args.shape_file),
                            args.output_dir, mask_grid_cache, TheValue(fill_value),
                            saved_mask_arrays, npy))

\* process_children: a child that is a dataset is handed to mask_fill
\* (pymods/H5MaskFill.py).
PymodsMaskFill ==
    /\ pc = "walk" /\ todo # <<>> /\ ~IsGroup(Head(todo)) /\ gen = "pymods"
    /\ Apply(pymods_mask_fill(OpenFile, Head(todo), TheValue(args.shape_file),
                              args.output_dir, mask_grid_cache, TheValue(fill_value),
                              saved_mask_arrays, npy))

\* A produce_masked_hdf that returns the path of the masked file in every
\* mode.  MaskgridOnlySucceedsWithoutFile tells it apart from hdf_result.
masked_file_path_in_every_mode ==
    Some(get_masked_file_path(TheValue(args.input_file), args.output_dir))

\* The value produce_masked_hdf returns.
hdf_result ==
    IF mask_grid_cache = maskgrid_only THEN None
    ELSE Some(get_masked_file_path(TheValue(args.input_file), args.output_dir))

\* H5MaskFill.produce_masked_hdf after process_file: the save and the return.
FlatFinish ==
    /\ pc = "walk" /\ todo = <<>> /\ gen = "flat"
    /\ npy' = flat_save_mask_arrays(saved_mask_arrays, args.output_dir,
                                    mask_grid_cache, npy, run)
    /\ output_file' = Bound(hdf_result)
    /\ pc' = "respond"
    /\ UNCHANGED <<world, infile, outfile, error_message, fill_value, hdf, raised,
                   response>>

\* pymods/H5MaskFill.produce_masked_hdf after process_file.
PymodsFinish ==
    /\ pc = "walk" /\ todo = <<>> /\ gen = "pymods"
    /\ npy' = cache_mask_arrays(saved_mask_arrays, args.output_dir,
                                mask_grid_cache, npy, run)
    /\ output_file' = Bound(hdf_result)
    /\ pc' = "respond"
    /\ UNCHANGED <<world, infile, outfile, error_message, fill_value, hdf, raised,
                   response>>

\* mask_fill: return get_xml_success_response(...); reading output_file
\* while it is unbound raises UnboundLocalError.
Respond ==
    /\ pc = "respond"
    /\ IF output_file.bound
       THEN /\ response' = Some(get_xml_success_response(
                   TheValue(args.input_file), TheValue(args.shape_file),
                   output_file.value))
            /\ pc' = "done"
            /\ raised' = raised
       ELSE /\ raised' = Some([type |-> "UnboundLocalError",
                               text |-> "local variable 'output_file' referenced before assignment"])
            /\ pc' = "except"
            /\ response' = response
    /\ UNCHANGED <<world, infile, outfile, npy, error_message, fill_value,
                   output_file, hdf>>

\* Except clauses that tell no failure apart: every failure is rendered by
\* its repr without an exit status.  CFErrorResponse tells them apart from
\* except_response.
respond_without_status(e) ==
    get_xml_error_response(None, Some(repr(e)))

\* Except clauses that render every failure with exit status 1.
\* OtherFailuresAreInternalErrors tells them apart from except_response.
respond_with_status_1(e) ==
    IF e.type = CFComplianceError
    THEN get_xml_error_response(Some(1),
            Some(<<"The given data file does not follow CF conventions and cannot be mask filled">>))
    ELSE get_xml_error_response(Some(1), Some(repr(e)))

\* The response of the except clauses of mask_fill to the failure e.
except_response(e) ==
    IF e.type = CFComplianceError
    THEN get_xml_error_response(Some(1),
            Some(<<"The given data file does not follow CF conventions and cannot be mask filled">>))
    ELSE get_xml_error_response(None, Some(repr(e)))

\* mask_fill: except CFComplianceError / except Exception.
Except ==
    /\ pc = "except"
    /\ response' = Some(except_response(TheValue(raised)))
    /\ pc' = "done"
    /\ UNCHANGED <<world, infile, outfile, npy, error_message, fill_value,
                   output_file, hdf, raised>>

\* The same order is placed again: the files stay as the last invocation
\* left them.
Again ==
    /\ pc = "done" /\ run < MaxRuns
    /\ run' = run + 1
    /\ pc' = "validate"
    /\ error_message' = None
    /\ fill_value' = None
    /\ output_file' = Unbound
    /\ mask_grid_cache' = <<>>
    /\ saved_mask_arrays' = <<>>
    /\ opened' = ""
    /\ todo' = <<>>
    /\ calls' = <<>>
    /\ raised' = None
    /\ response' = None
    /\ UNCHANGED <<args, gen, original, infile, outfile, npy, probe>>

Next ==
    \/ Validate
    \/ DispatchGeotiff
    \/ DispatchHdf
    \/ EnterGroup
    \/ FlatMaskFill
    \/ PymodsMaskFill
    \/ FlatFinish
    \/ PymodsFinish
    \/ Respond
    \/ Except
    \/ Again

Spec == Init /\ [][Next]_vars

----------------------------------------------------------------------------
(* Single calls: one function of the readers or of the cache is called on  *)
(* an input drawn from a bounded set of the inputs the program can hand it. *)

\* Units of a dimension scale: none, geographic, metres, and a capitalised
\* spelling that does not contain "degrees".
ScaleWith(values, units) ==
    [shape |-> <<Len(values)>>, data |-> values,
     attrs |-> IF units = None THEN <<>> ELSE "units" :> TheValue(units)]

\* Files with one 2-D dataset d that may lack DIMENSION_LIST and
\* grid_mapping, over dimension scales px and py that may lack units.
ProbeFiles ==
    {   (<<"d">> :> [shape |-> GridShape, data |-> [c \in Cells(GridShape) |-> 1],
                     attrs |-> (IF dl THEN "DIMENSION_LIST" :> <<<<"py">>, <<"px">>>> ELSE <<>>)
                            @@ (IF gm THEN "grid_mapping" :> <<"crs">> ELSE <<>>)])
     @@ (<<"px">> :> ScaleWith(<<100, 200, 300>>, ux))
     @@ (<<"py">> :> ScaleWith(<<400, 200>>, uy))
     @@ FixedDatasets
     : dl \in BOOLEAN, gm \in BOOLEAN,
       ux, uy \in {None, Some(T_degrees_east), Some(<<"m">>),
                   Some(<<"D","e","g","r","e","e","s">>)} }

\* The calls of fn on each of the inputs, not yet made.
ProbesOf(fn, inputs) == {[fn |-> fn, input |-> i, result |-> None] : i \in inputs}

\* The four parts of a cache key: proj4 strings one of which begins with the
\* other, transforms, shapes whose digits run together, and shapefile paths
\* one of which begins like the text of a shape.
KeyParts ==
    [proj4 : {<<"+", "a">>, <<"+", "a", " ", "+", "b">>},
     transform : {<<2, 0, 9, 0, -10, 55>>, <<2, 0, 9, 0, -1, 55>>},
     shape : {<<1, 12>>, <<11, 2>>, <<2, 3>>},
     path : {P_s_shp, <<"2">> \o P_s_shp,
             <<"(", "2", ",", " ", "3", ")">> \o P_s_shp}]

\* Grid-mapping datasets of two projections, with and without a
\* standard_parallel.
GridMappings ==
    {[shape |-> <<>>, data |-> <<>>,
      attrs |-> ("grid_mapping_name" :> name)
             @@ (IF sp = None THEN <<>> ELSE "standard_parallel" :> TheValue(sp))]
     : name \in {"polar_stereographic", "lambert_conformal_conic"},
       sp \in {None, Some(70), Some(25)}}

\* Files with one dataset d, square or not, over a scale py as long as its
\* rows are many, a scale px as long as its columns are many and a scale pt
\* of another length, referenced in several orders.
DimensionFiles ==
    {   (<<"d">> :> [shape |-> shape, data |-> [c \in Cells(shape) |-> 1],
                     attrs |-> "DIMENSION_LIST" :> dim_list])
     @@ (<<"px">> :> ScaleWith([i \in 1..shape[2] |-> 100 * i], Some(<<"m">>)))
     @@ (<<"py">> :> ScaleWith([i \in 1..shape[1] |-> 100 * i], Some(<<"m">>)))
     @@ (<<"pt">> :> ScaleWith(<<1, 2, 3, 4, 5>>, None))
     : shape \in {<<2, 2>>, <<2, 3>>, <<3, 2>>},
       dim_list \in {<<<<"py">>, <<"px">>>>, <<<<"px">>, <<"py">>>>,
                     <<<<"pt">>, <<"py">>, <<"px">>>>,
                     <<<<"px">>, <<"pt">>, <<"py">>>>} }

Probes ==
         ProbesOf("get_hdf_proj4", ProbeFiles)
    \cup ProbesOf("create_mask_array_id", KeyParts \X KeyParts)
    \cup ProbesOf("get_mask_array_id", KeyParts \X KeyParts)
    \cup ProbesOf("H5GridProjectionInfo.get_proj4", GridMappings)
    \cup ProbesOf("GridProjectionInfo.get_proj4", GridMappings)
    \cup ProbesOf("H5GridProjectionInfo.get_dimension_datasets", DimensionFiles)
    \cup ProbesOf("GridProjectionInfo.get_dimension_datasets", DimensionFiles)

CallInit ==
    /\ probe \in Probes
    /\ run = 1 /\ pc = "call" /\ gen = "pymods"
    /\ args = <<>> /\ infile = <<>> /\ original = <<>> /\ outfile = None /\ npy = <<>>
    /\ error_message = None /\ fill_value = None /\ output_file = Unbound
    /\ mask_grid_cache = <<>> /\ saved_mask_arrays = <<>> /\ opened = "" /\ todo = <<>>
    /\ calls = <<>> /\ raised = None /\ response = None

Returns(fn, value) ==
    /\ probe.fn = fn /\ probe.result = None
    /\ probe' = [probe EXCEPT !.result = Some(value)]
    /\ UNCHANGED <<args, gen, infile, original, outfile, npy, run, pc,
                   error_message, fill_value, output_file, mask_grid_cache,
                   saved_mask_arrays, opened, todo, calls, raised, response>>

\* H5GridProjectionInfo.get_hdf_proj4(d)
CallHdfProj4 ==
    Returns("get_hdf_proj4", H5GridProjectionInfo_get_hdf_proj4(probe.input, <<"d">>))

\* MaskFillCaching.create_mask_array_id on two tuples of parts
CallCreateMaskArrayId ==
    Returns("create_mask_array_id",
            [i \in 1..2 |-> create_mask_array_id(probe.input[i].proj4,
                                probe.input[i].transform, probe.input[i].shape,
                                probe.input[i].path)])

\* H5MaskFill.get_mask_array_id on two datasets with these parts
CallFlatMaskArrayId ==
    Returns("get_mask_array_id",
            [i \in 1..2 |-> flat_mask_array_id_from(Return(probe.input[i].proj4),
                                Return(probe.input[i].transform), probe.input[i].shape,
                                probe.input[i].path).value])

\* H5GridProjectionInfo.get_proj4(grid_mapping)
CallStrictGetProj4 ==
    Returns("H5GridProjectionInfo.get_proj4", H5GridProjectionInfo_get_proj4(probe.input))

\* GridProjectionInfo.get_proj4(grid_mapping)
CallLegacyGetProj4 ==
    Returns("GridProjectionInfo.get_proj4", GridProjectionInfo_get_proj4(probe.input))

\* H5GridProjectionInfo.get_dimension_datasets(d)
CallStrictGetDimensionDatasets ==
    Returns("H5GridProjectionInfo.get_dimension_datasets",
            H5GridProjectionInfo_get_dimension_datasets(probe.input, <<"d">>))

\* GridProjectionInfo.get_dimension_datasets(d)
CallLegacyGetDimensionDatasets ==
    Returns("GridProjectionInfo.get_dimension_datasets",
            GridProjectionInfo_get_dimension_datasets(probe.input, <<"d">>))

CallNext ==
    \/ CallHdfProj4
    \/ CallCreateMaskArrayId
    \/ CallFlatMaskArrayId
    \/ CallStrictGetProj4
    \/ CallLegacyGetProj4
    \/ CallStrictGetDimensionDatasets
    \/ CallLegacyGetDimensionDatasets

CallSpec == CallInit /\ [][CallNext]_vars

----------------------------------------------------------------------------
(* Properties *)

\* The invocation runs an HDF5 pipeline / produce_masked_hdf has returned.
InHdfPipeline == opened # ""
Completed == InHdfPipeline /\ pc \in {"respond", "done"} /\ raised = None

\* The cache key of the 2-D dataset at path p of the input file.
KeyOf(p) ==
    IF gen = "flat"
    THEN flat_get_mask_array_id(infile, p, TheValue(args.shape_file)).value
    ELSE pymods_get_mask_array_id(infile, p, TheValue(args.shape_file)).value

\* The file <cache_dir>/<key>.npy of a key.
FileOf(key) == get_mask_array_path(key, args.output_dir)

\* The fill value of the dataset at path p: the one it declares, else the
\* default of the command line.
FillOf(p) ==
    IF "_FillValue" \in DOMAIN infile[p].attrs
    THEN infile[p].attrs["_FillValue"]
    ELSE TheValue(fill_value)

\* C1: after produce_masked_hdf has completed in a mode other than
\* maskgrid_only, in either generation, every 2-D dataset of the output file,
\* at every group nesting depth, holds at each cell the value of the input
\* file where the mask array of the dataset is True and the fill value of
\* the dataset where it is False.
OutputIsMaskFilled ==
    (Completed /\ mask_grid_cache # maskgrid_only) =>
        \A p \in GridPaths : \A c \in Cells(infile[p].shape) :
            TheValue(outfile)[p].data[c] =
                IF saved_mask_arrays[KeyOf(p)][c] THEN infile[p].data[c] ELSE FillOf(p)

\* A completed run whose nested 2-D dataset kept one cell and lost another.
OutputIsMaskFilledWitness ==
    /\ Completed /\ mask_grid_cache # maskgrid_only
    /\ \E c \in Cells(GridShape) :
          TheValue(outfile)[<<"g", "d">>].data[c] # infile[<<"g", "d">>].data[c]
    /\ \E c \in Cells(GridShape) :
          /\ TheValue(outfile)[<<"g", "d">>].data[c] = infile[<<"g", "d">>].data[c]
          /\ infile[<<"g", "d">>].data[c] # FillOf(<<"g", "d">>)

\* The number of the first check the arguments fail, 0 when they pass all six.
FirstFailingCheck ==
    IF args.input_file = None THEN 1
    ELSE IF args.shape_file = None THEN 2
    ELSE IF ~(\/ endswith(TheValue(args.input_file), T_tif)
              \/ endswith(TheValue(args.input_file), T_h5)) THEN 3
    ELSE IF ~endswith(TheValue(args.shape_file), T_shp) THEN 4
    ELSE IF ~(/\ exists(TheValue(args.input_file))
              /\ exists(TheValue(args.shape_file))
              /\ exists(args.output_dir)) THEN 5
    ELSE IF float(args.fill_value) = None THEN 6
    ELSE 0

\* C2: for every combination of arguments the value validation returns is
\* the response of the first failing check in the order input file supplied,
\* shapefile supplied, input extension, shapefile extension, paths exist,
\* fill value parses: MissingParameterValue for checks 1, 2 and 5,
\* InvalidParameterValue for checks 3, 4 and 6, and None when all pass.
ValidationReportsFirstFailingCheck ==
    pc # "validate" =>
        IF FirstFailingCheck = 0 THEN error_message = None
        ELSE /\ error_message # None
             /\ TheValue(error_message).root = "iesi:Exception"
             /\ TheValue(error_message).Code =
                    IF FirstFailingCheck \in {1, 2, 5}
                    THEN "MissingParameterValue" ELSE "InvalidParameterValue"

\* A nonexistent input path ending in .csv is reported as an invalid
\* parameter.
ValidationReportsFirstFailingCheckWitness ==
    /\ pc = "done"
    /\ args.input_file = Some(P_m_csv) /\ args.shape_file = Some(P_s_shp)
    /\ response # None /\ TheValue(response).Code = "InvalidParameterValue"

\* C3: when a run resolves a mask array whose key is not in its in-run cache,
\* the mask is loaded from <key>.npy if and only if the lower-cased mode
\* contains "use" and that file exists in the cache directory; otherwise it
\* is computed fresh.  (The cache directory does not change while the file
\* is traversed.)
CacheIsReadOnlyInUseModes ==
    (InHdfPipeline /\ pc \in {"walk", "except"}) =>
        \A i \in DOMAIN calls :
            calls[i].source # "memory" =>
                /\ calls[i].source = "disk" <=>
                      /\ contains(lower(args.mask_grid_cache), T_use)
                      /\ FileOf(calls[i].mask_id) \in DOMAIN npy
                /\ calls[i].source = "disk" =>
                      saved_mask_arrays[calls[i].mask_id] = npy[FileOf(calls[i].mask_id)].array

\* The second run loads a file the first run wrote.
CacheIsReadOnlyInUseModesWitness ==
    /\ run = 2 /\ pc = "walk"
    /\ \E i \in DOMAIN calls :
          /\ calls[i].source = "disk"
          /\ npy[FileOf(calls[i].mask_id)].saved_in = 1

\* The mask array of a key of the in-run cache has been written to
\* <cache_dir>/<key>.npy by this run.
Written(key) ==
    /\ FileOf(key) \in DOMAIN npy
    /\ npy[FileOf(key)].saved_in = run
    /\ npy[FileOf(key)].array = saved_mask_arrays[key]

\* C4: in the packaged pipeline, after a run that completes, every mask array
\* of the in-run cache has been written to <cache_dir>/<key>.npy if and only
\* if the lower-cased mode does not contain "delete".
PackagedSavesUnlessDelete ==
    (Completed /\ gen = "pymods") =>
        \A key \in DOMAIN saved_mask_arrays :
            Written(key) <=> ~contains(lower(args.mask_grid_cache), T_delete)

\* A completed packaged run in mode use_cache has written its mask arrays.
PackagedSavesUnlessDeleteWitness ==
    /\ Completed /\ gen = "pymods" /\ args.mask_grid_cache = use_cache
    /\ saved_mask_arrays # <<>>
    /\ \A key \in DOMAIN saved_mask_arrays : Written(key)

DeleteModesLeaveNoMaskFile ==
    (Completed /\ args.mask_grid_cache \in {ignore_and_delete, use_cache_delete}) =>
        \A key \in DOMAIN saved_mask_arrays : FileOf(key) \notin DOMAIN npy

\* C7: in maskgrid_only mode (matched after lower-casing) produce_masked_hdf
\* opens the input file itself, writes no data and no attribute of any
\* dataset (the input file stays as it was), creates no output copy and
\* returns None.
MaskgridOnlyWritesNoData ==
    (InHdfPipeline /\ lower(args.mask_grid_cache) = maskgrid_only) =>
        /\ opened = "in"
        /\ infile = original
        /\ outfile = None
        /\ Completed => output_file = Bound(None)

\* A completed run in mode MaskGrid_Only whose only writes are cache files.
MaskgridOnlyWritesNoDataWitness ==
    /\ Completed /\ args.mask_grid_cache = MaskGrid_Only
    /\ saved_mask_arrays # <<>>
    /\ \A key \in DOMAIN saved_mask_arrays : Written(key)
    /\ infile = original /\ outfile = None

\* The dataset the traversal hands to mask_fill next is not 2-D.
AtOtherRank ==
    /\ pc = "walk" /\ todo # <<>> /\ ~IsGroup(Head(todo))
    /\ Len(OpenFile[Head(todo)].shape) # 2

\* C8: a dataset whose rank is not 2 is skipped without error, without a
\* mask-array computation and without an in-run cache entry, and the data
\* and attributes of every such dataset in the output file are those of the
\* input file.
OnlyRank2DatasetsAreProcessed ==
    /\ [](opened = "out" =>
            \A p \in DatasetPaths \ GridPaths : TheValue(outfile)[p] = original[p])
    /\ [][AtOtherRank =>
            /\ pc' = "walk" /\ raised' = None /\ todo' = Tail(todo)
            /\ calls' = calls /\ saved_mask_arrays' = saved_mask_arrays
            /\ infile' = infile /\ outfile' = outfile]_vars

\* A completed run that changed a 2-D dataset and left the 3-D dataset, a
\* dimension scale and the scalar dataset as they were.
OnlyRank2DatasetsAreProcessedWitness ==
    /\ Completed /\ opened = "out"
    /\ TheValue(outfile)[<<"d">>].data # original[<<"d">>].data
    /\ TheValue(outfile)[<<"cube">>] = original[<<"cube">>]
    /\ TheValue(outfile)[<<"lat">>] = original[<<"lat">>]
    /\ TheValue(outfile)[<<"crs">>] = original[<<"crs">>]

\* The pipeline raised the CF-compliance error and mask_fill has returned.
ReturnedAfterCFError ==
    /\ pc = "done" /\ raised # None
    /\ TheValue(raised).type = CFComplianceError

CFMessage ==
    <<"The given data file does not follow CF conventions and cannot be mask filled">>

OtherFailuresAreInternalErrors ==
    /\ pc = "except" => raised # None
    /\ (pc = "done" /\ error_message = None) =>
          /\ response # None
          /\ (raised # None /\ TheValue(raised).type # CFComplianceError) =>
                /\ TheValue(response).root = "iesi:Exception"
                /\ TheValue(response).Code = "InternalError"
                /\ TheValue(response).Message = repr(TheValue(raised))
                /\ TheValue(response).failed_with_code = "None"
          /\ TheValue(response).root = "ns2:agentResponse" =>
                /\ raised = None
                /\ output_file.bound

\* mask_fill has returned the response to a ValueError of the statistics.
OtherFailuresAreInternalErrorsWitness ==
    /\ pc = "done" /\ error_message = None /\ raised # None
    /\ TheValue(raised).type = "ValueError"
    /\ TheValue(response).Code = "InternalError"

\* The result of the single call.
Result == TheValue(probe.result)
ProbeD == probe.input[<<"d">>]

\* C11: the strict reader's get_hdf_proj4 raises the CF-compliance error in
\* exactly three cases: the dataset has no DIMENSION_LIST (found first,
\* whatever the units); the first returned dimension scale (x) has no units;
\* the units do not contain "degrees" and the dataset has no grid_mapping.
\* Units containing "degrees" give the fixed geographic string, with or
\* without grid_mapping.
StrictReaderCFCases ==
    (probe.fn = "get_hdf_proj4" /\ probe.result # None) =>
        LET no_dimension_list == "DIMENSION_LIST" \notin DOMAIN ProbeD.attrs
            x_attrs == probe.input[<<"px">>].attrs
            no_units == "units" \notin DOMAIN x_attrs
            geographic == ~no_units /\ contains(x_attrs["units"], T_degrees)
            no_grid_mapping == "grid_mapping" \notin DOMAIN ProbeD.attrs
        IN /\ Result.raised <=>
                \/ no_dimension_list
                \/ no_units
                \/ ~geographic /\ no_grid_mapping
           /\ Result.raised => Result.type = CFComplianceError
           /\ no_dimension_list =>
                Result.text = "The dataset does not have a DIMENSION_LIST attribute"
           /\ (~no_dimension_list /\ geographic) => Result = Return(GeographicProj4)

\* A dataset with DIMENSION_LIST over scales in metres and without
\* grid_mapping: the call raised the CF-compliance error.
StrictReaderCFCasesWitness ==
    /\ probe.fn = "get_hdf_proj4" /\ probe.result # None
    /\ "DIMENSION_LIST" \in DOMAIN ProbeD.attrs
    /\ probe.input[<<"px">>].attrs = ("units" :> <<"m">>)
    /\ "grid_mapping" \notin DOMAIN ProbeD.attrs
    /\ Result.raised /\ Result.type = CFComplianceError

\* The GeoTIFF pipeline has written its output file.
GeotiffDone ==
    /\ pc \in {"h5", "respond", "done"} /\ error_message = None
    /\ endswith(lower(TheValue(args.input_file)), T_tif)

\* The mask array of the GeoTIFF input.
GeotiffMask ==
    rasterize(get_projected_shapes(infile.proj4, TheValue(args.shape_file)),
              infile.shape, infile.transform)

\* C12: the fill value used for a mask fill is the declared one whenever one
\* is declared (the no-data value of the GeoTIFF band, the _FillValue of the
\* HDF5 dataset), whatever the default of the caller, and is that default
\* exactly when none is declared.
FillValueIsDeclaredElseDefault ==
    /\ GeotiffDone =>
          \A c \in Cells(infile.shape) :
              ~GeotiffMask[c] =>
                  TheValue(outfile).band[c] =
                      IF infile.nodata # None THEN TheValue(infile.nodata)
                      ELSE TheValue(fill_value)
    /\ (Completed /\ mask_grid_cache # maskgrid_only) =>
          \A p \in GridPaths : \A c \in Cells(infile[p].shape) :
              ~saved_mask_arrays[KeyOf(p)][c] =>
                  TheValue(outfile)[p].data[c] =
                      IF "_FillValue" \in DOMAIN infile[p].attrs
                      THEN infile[p].attrs["_FillValue"]
                      ELSE TheValue(fill_value)

\* A GeoTIFF whose band declares the no-data value 0 is filled with 0 under
\* the default -9999.
FillValueIsDeclaredElseDefaultWitness ==
    /\ GeotiffDone /\ infile.nodata = Some(0) /\ fill_value = Some(0 - 9999)
    /\ \E c \in Cells(infile.shape) :
          /\ ~GeotiffMask[c]
          /\ infile.band[c] # 0
          /\ TheValue(outfile).band[c] = 0

\* The four parts are the same: texts of equal shapes are equal texts.
SameParts(a, b) ==
    /\ a.proj4 = b.proj4
    /\ str_transform(a.transform) = str_transform(b.transform)
    /\ a.shape = b.shape
    /\ a.path = b.path

\* C13: in both generations two tuples (proj4 string, text of the transform,
\* text of the shape, shapefile path) get the same cache key if and only if
\* all four parts are equal, the digest taken as injective on the text it
\* hashes, which is the four parts concatenated without a separator.
KeysAreInjective ==
    (probe.fn \in {"create_mask_array_id", "get_mask_array_id"} /\ probe.result # None) =>
        (Result[1] = Result[2] <=> SameParts(probe.input[1], probe.input[2]))

\* Two tuples that differ only in where the digits of the shape and the
\* shapefile path meet have different keys.
KeysAreInjectiveWitness ==
    /\ probe.fn = "create_mask_array_id" /\ probe.result # None
    /\ probe.input[1].shape = <<1, 12>> /\ probe.input[2].shape = <<11, 2>>
    /\ probe.input[1].proj4 = probe.input[2].proj4
    /\ probe.input[1].transform = probe.input[2].transform
    /\ probe.input[1].path = probe.input[2].path
    /\ Result[1] # Result[2]

\* The order names a mode outside the recognized literals, with none of the
\* substrings "use", "save" and "delete".
UnrecognisedMode == args.mask_grid_cache = off_mode

\* The per-dataset step of the running generation under a mode.
StepUnder(mode) ==
    IF gen = "flat"
    THEN flat_mask_fill(OpenFile, Head(todo), TheValue(args.shape_file), args.output_dir,
                        mode, TheValue(fill_value), saved_mask_arrays, npy)
    ELSE pymods_mask_fill(OpenFile, Head(todo), TheValue(args.shape_file), args.output_dir,
                          mode, TheValue(fill_value), saved_mask_arrays, npy)

\* C14 (as the code has it): a mode outside the six literals is accepted by
\* validation; with none of the substrings "use", "save", "delete" no cached
\* mask file is read and the mask fill is performed on an output copy, each
\* per-dataset step being the one of ignore_and_delete.  The flat generation
\* then writes no mask file, as with ignore_and_delete; the packaged
\* generation writes every mask array of the in-run cache, as with
\* ignore_and_save.
UnrecognisedModeFallsThrough ==
    UnrecognisedMode =>
        /\ pc # "validate" => error_message = None
        /\ \A i \in DOMAIN calls : calls[i].source = "fresh" \/ calls[i].source = "memory"
        /\ InHdfPipeline => opened = "out"
        /\ (pc = "walk" /\ todo # <<>> /\ ~IsGroup(Head(todo))) =>
              StepUnder(mask_grid_cache) = StepUnder(ignore_and_delete)
        /\ Completed =>
              \A key \in DOMAIN saved_mask_arrays : Written(key) <=> gen = "pymods"

\* A completed packaged run in the unrecognised mode has written its mask
\* arrays.
UnrecognisedModeFallsThroughWitness ==
    /\ UnrecognisedMode /\ Completed /\ gen = "pymods"
    /\ saved_mask_arrays # <<>>
    /\ \A key \in DOMAIN saved_mask_arrays : Written(key)
    /\ TheValue(outfile)[<<"d">>].data # infile[<<"d">>].data

\* C14 (as stated): in both generations the unrecognised mode behaves exactly
\* as ignore_and_delete: no cached mask file is read, no mask file is
\* written, and the mask fill is performed on an output copy.
UnrecognisedModeIsIgnoreAndDelete ==
    UnrecognisedMode =>
        /\ pc # "validate" => error_message = None
        /\ \A i \in DOMAIN calls : calls[i].source # "disk"
        /\ InHdfPipeline => opened = "out"
        /\ Completed => \A key \in DOMAIN saved_mask_arrays : ~Written(key)

\* The two conditions mask_fill tests, one after the other.
IsTif == endswith(lower(TheValue(args.input_file)), T_tif)
IsH5 == endswith(lower(TheValue(args.input_file)), T_h5)
Dispatching == pc \in {"tif", "h5", "walk", "respond", "except"}

\* C15: for every input that passes validation exactly one of the two
\* dispatch conditions holds, so exactly one pipeline is invoked and
\* output_file is bound when the success response is rendered; a path with an
\* upper-case extension never reaches dispatch, the suffix test of the
\* validation being case-sensitive.
DispatchIsExclusive ==
    /\ (pc # "validate" /\ error_message = None) =>
          /\ IsTif # IsH5
          /\ InHdfPipeline => IsH5
          /\ (IsH5 /\ pc \in {"walk", "respond", "except", "done"}) => InHdfPipeline
    /\ pc = "respond" => output_file.bound
    /\ Dispatching =>
          \/ endswith(TheValue(args.input_file), T_tif)
          \/ endswith(TheValue(args.input_file), T_h5)
    /\ args.input_file = Some(P_A_H5) =>
          /\ ~Dispatching
          /\ pc = "done" => error_message # None

\* A GeoTIFF order answered with the success response after the GeoTIFF
\* pipeline alone was invoked.
DispatchIsExclusiveWitness ==
    /\ pc = "done" /\ error_message = None /\ raised = None
    /\ IsTif /\ ~InHdfPipeline /\ output_file.bound
    /\ TheValue(response).root = "ns2:agentResponse"

\* The traversal stands at a 2-D dataset that lacks DIMENSION_LIST.
AtGridWithoutDimensionList ==
    /\ InHdfPipeline /\ todo # <<>> /\ Head(todo) \in GridPaths
    /\ "DIMENSION_LIST" \notin DOMAIN infile[Head(todo)].attrs

LegacyFailure ==
    [type |-> "TypeError", text |-> "'NoneType' object is not subscriptable"]

InRunCacheComesFirst ==
    /\ [](\A i \in DOMAIN calls :
            /\ calls[i].source = "memory" <=>
                  \E j \in 1..(i - 1) : calls[j].mask_id = calls[i].mask_id
            /\ \A j \in 1..(i - 1) :
                  calls[j].mask_id = calls[i].mask_id =>
                      calls[j].mask_array = calls[i].mask_array
            /\ calls[i].mask_id \in DOMAIN saved_mask_arrays
            /\ saved_mask_arrays[calls[i].mask_id] = calls[i].mask_array)
    /\ [][run' = run =>
            \A key \in DOMAIN saved_mask_arrays :
                /\ key \in DOMAIN saved_mask_arrays'
                /\ saved_mask_arrays'[key] = saved_mask_arrays[key]]_vars

\* A run that loaded a mask array from disk for its first dataset and took
\* it from the in-run cache for the second.
InRunCacheComesFirstWitness ==
    /\ Len(calls) = 2
    /\ calls[1].source = "disk" /\ calls[2].source = "memory"
    /\ calls[1].mask_id = calls[2].mask_id
    /\ calls[1].mask_array = EarlierMask.array

\* The proj4 text holds lat_ts with this value.
HasLatTs(proj4, value) ==
    \E i \in 1..(Len(proj4) - 1) :
        proj4[i] = " +lat_ts=" /\ proj4[i + 1] = ToString(value)

\* C18: the strict reader's get_proj4 copies standard_parallel into lat_ts
\* if and only if the grid-mapping dataset has a standard_parallel: when it
\* has one the description's lat_ts is that value, when it has none there
\* is no lat_ts and no KeyError.
StandardParallelIsCopiedWhenPresent ==
    (probe.fn = "H5GridProjectionInfo.get_proj4" /\ probe.result # None) =>
        /\ ~Result.raised
        /\ IF "standard_parallel" \in DOMAIN probe.input.attrs
           THEN HasLatTs(Result.value, probe.input.attrs["standard_parallel"])
           ELSE \A value \in {25, 70} : ~HasLatTs(Result.value, value)

ReturnedDimensions ==
    /\ probe.fn \in {"H5GridProjectionInfo.get_dimension_datasets",
                     "GridProjectionInfo.get_dimension_datasets"}
    /\ probe.result # None

\* The references of d that the loop iterates and the lengths of their scales.
ProbeDimList == ProbeD.attrs["DIMENSION_LIST"]
ScaleLength(ref) == probe.input[ref].shape[1]

\* C19: get_dimension_datasets of either reader, on a square dataset whose
\* referenced scales all have the side's length, returns one and the same
\* scale as x and as y, the last reference iterated; on a non-square dataset
\* it returns as x the scale as long as shape[1] and as y the scale as long
\* as shape[0], in whatever order they are referenced.
SquareDatasetsGetOneDimension ==
    ReturnedDimensions =>
        /\ ~Result.raised
        /\ (/\ ProbeD.shape[1] = ProbeD.shape[2]
            /\ \A i \in DOMAIN ProbeDimList :
                  ScaleLength(ProbeDimList[i]) = ProbeD.shape[1])
           => TheValue(Result.value)
                = <<ProbeDimList[Len(ProbeDimList)], ProbeDimList[Len(ProbeDimList)]>>
        /\ ProbeD.shape[1] # ProbeD.shape[2]
           => /\ ScaleLength(TheValue(Result.value)[1]) = ProbeD.shape[2]
              /\ ScaleLength(TheValue(Result.value)[2]) = ProbeD.shape[1]
              /\ TheValue(Result.value) = << <<"px">>, <<"py">> >>

\* A square dataset referencing py before px got px as both dimensions.
SquareDatasetsGetOneDimensionWitness ==
    /\ ReturnedDimensions
    /\ ProbeD.shape = <<2, 2>>
    /\ ProbeDimList = << <<"py">>, <<"px">> >>
    /\ TheValue(Result.value) = << <<"px">>, <<"px">> >>

\* The per-dataset step has failed on the dataset at the head of todo.
WalkFailed == InHdfPipeline /\ raised # None /\ todo # <<>>

\* The dataset at path p is still to be visited: it or a group above it is
\* in todo.
Pending(p) ==
    \E i \in DOMAIN todo :
        Len(todo[i]) <= Len(p) /\ SubSeq(p, 1, Len(todo[i])) = todo[i]

\* C20: in both pipelines the mask arrays are written only after the walk
\* over all datasets: when the per-dataset step has failed on a dataset, no
\* file of the cache directory has been written by this run, in every mode,
\* while the 2-D datasets visited before the failure are already mask-filled
\* in the output file.
NoMaskFileWhenTheWalkFails ==
    WalkFailed =>
        /\ \A f \in DOMAIN npy : npy[f].saved_in # run
        /\ mask_grid_cache # maskgrid_only =>
              \A p \in GridPaths : ~Pending(p) =>
                  \A c \in Cells(infile[p].shape) :
                      TheValue(outfile)[p].data[c] =
                          IF saved_mask_arrays[KeyOf(p)][c]
                          THEN infile[p].data[c] ELSE FillOf(p)

\* A run in a saving mode that computed the mask of the root dataset, filled
\* it in the output file and failed on the nested one: the mask has no file.
NoMaskFileWhenTheWalkFailsWitness ==
    /\ WalkFailed /\ mask_grid_cache = ignore_and_save
    /\ Head(todo) = <<"g", "d">>
    /\ Len(calls) = 1 /\ calls[1].source = "fresh"
    /\ calls[1].mask_id \in DOMAIN saved_mask_arrays
    /\ FileOf(calls[1].mask_id) \notin DOMAIN npy
    /\ TheValue(outfile)[<<"d">>].data # infile[<<"d">>].data

\* The statistic of the step failed on the dataset at the head of todo.
StatisticFailed ==
    /\ WalkFailed /\ mask_grid_cache # maskgrid_only
    /\ TheValue(raised).type = "ValueError"

\* The dataset at path p carries observed_max or observed_min.
HasExtremum(p) ==
    \/ "observed_max" \in DOMAIN infile[p].attrs
    \/ "observed_min" \in DOMAIN infile[p].attrs

\* The grid the step writes into the dataset at path p.
FilledGrid(p) ==
    [c \in Cells(infile[p].shape) |->
        IF saved_mask_arrays[KeyOf(p)][c] THEN infile[p].data[c] ELSE FillOf(p)]

\* C21: in both pipelines, in a mode other than maskgrid_only, the statistics
\* are computed after the filled grid has been written.  When the statistic
\* of the step has failed, the dataset carries observed_max or observed_min,
\* its data is already the filled grid, no cell of which differs from the
\* fill value, its attributes are the old ones, and the traversal has
\* stopped: the datasets after it are as in the input file.  A dataset the
\* walk has passed does not both carry observed_max or observed_min and hold
\* the fill value in every cell.
StatisticsFollowTheWrite ==
    /\ StatisticFailed =>
          /\ HasExtremum(Head(todo))
          /\ TheValue(outfile)[Head(todo)].data = FilledGrid(Head(todo))
          /\ \A c \in Cells(infile[Head(todo)].shape) :
                FilledGrid(Head(todo))[c] = FillOf(Head(todo))
          /\ TheValue(outfile)[Head(todo)].attrs = infile[Head(todo)].attrs
          /\ pc \in {"except", "done"}
          /\ \A p \in GridPaths :
                (Pending(p) /\ p # Head(todo)) => TheValue(outfile)[p] = infile[p]
    /\ (InHdfPipeline /\ mask_grid_cache # maskgrid_only) =>
          \A p \in GridPaths :
              (~Pending(p) /\ HasExtremum(p)) =>
                  \E c \in Cells(infile[p].shape) :
                      TheValue(outfile)[p].data[c] # FillOf(p)

\* The step failed on the root dataset after it had overwritten data that
\* differed from the fill value, and the nested dataset was never visited.
StatisticsFollowTheWriteWitness ==
    /\ StatisticFailed /\ Head(todo) = <<"d">>
    /\ TheValue(outfile)[<<"d">>].data # infile[<<"d">>].data
    /\ TheValue(outfile)[<<"g", "d">>] = infile[<<"g", "d">>]

\* The text of the absent value.
T_None == <<"N", "o", "n", "e">>

\* The order names maskgrid_only, in whatever letter case, and the
\* invocation has returned without a failure in the HDF5 pipeline.
MaskgridOnlyReturned ==
    /\ InHdfPipeline /\ pc = "done" /\ raised = None
    /\ lower(args.mask_grid_cache) = maskgrid_only

\* C22: the command line run on a valid .h5 input in mode maskgrid_only, in
\* any letter case, whose pipeline completes, returns the success response
\* (root ns2:agentResponse) and no error, although produce_masked_hdf
\* returned no file path and made no output copy: downloadUrls and OUTFILE
\* hold the text None.
MaskgridOnlySucceedsWithoutFile ==
    MaskgridOnlyReturned =>
        /\ output_file = Bound(None)
        /\ opened = "in"
        /\ run = 1 => outfile = None
        /\ response # None
        /\ TheValue(response).root = "ns2:agentResponse"
        /\ TheValue(response).Code = ""
        /\ TheValue(response).downloadUrls = T_None
        /\ TheValue(response).OUTFILE = T_None
        /\ TheValue(response).INFILE = TheValue(args.input_file)

\* The mode was written MaskGrid_Only and the first run returned the success
\* response with None for the file, no output file in existence.
MaskgridOnlySucceedsWithoutFileWitness ==
    /\ MaskgridOnlyReturned /\ run = 1
    /\ args.mask_grid_cache = MaskGrid_Only
    /\ outfile = None
    /\ TheValue(response).root = "ns2:agentResponse"
    /\ TheValue(response).OUTFILE = T_None

====
